---- MODULE Spec2Model ----
(***************************************************************************)
(* Model of happybase/util.py: the retry wrappers retryable and            *)
(* retryable_generator, and bytes_increment.                               *)
(*                                                                         *)
(* Spec: one invocation of one wrapped operation.  SpecConcurrent: several *)
(* interleaved invocations of one wrapper built by retryable.  SpecBytes:  *)
(* bytes_increment applied to a byte string.                               *)
(*                                                                         *)
(* One behaviour of Spec is one invocation of one wrapped operation.       *)
(* The policy (expected_exception, retry_count, callback) is fixed when    *)
(* the wrapper is constructed; the outcomes of the wrapped operation, of   *)
(* the producer it returns and of the callback are chosen by the           *)
(* environment at each step.  For retryable_generator the consumer drives  *)
(* the generator object with next(), close() and throw().                  *)
(***************************************************************************)
EXTENDS Integers, Sequences, FiniteSets, TLC

(* ---------------------------- bounds ----------------------------------- *)
MaxRetry == 2          \* largest retry_count explored
MaxLen == 2            \* longest producer explored
MaxBytesLen == 3       \* longest argument of bytes_increment explored

(* ------------------------- value universes ------------------------------ *)
Kinds == {"ValueError", "NotImplementedError"}
Elems == {"a", "b"}
Values == {"v42", "v43"}
ArgVals == {"args1", "args2"}
NoArgs == "noargs"
NoValue == "novalue"

\* src/happybase/util.py:97 and :145, retry_count: int=1
DefaultRetryCount == 1

\* src/happybase/util.py:87, 0xff
MaxByte == 255

\* The bytes the arguments of bytes_increment are made of: both ends of
\* the range 0..255 and their neighbours.
ByteVals == {0, 1, 254, 255}
ByteStrings == UNION {[1..m -> ByteVals] : m \in 0..MaxBytesLen}

\* An exception object: its kind, the attempt (number of invocations of the
\* operation so far) during which it was raised, and where it was raised.
Err(k, n, where) == [kind |-> k, attempt |-> n, at |-> where]
NoError == Err("none", 0, "none")

SeqsUpTo(n) == UNION {[1..m -> Elems] : m \in 0..n}
\* A producer: the elements it still has to produce and how it ends then
\* ("stop" = exhaustion, otherwise the kind of the error it raises).
Producers == [elems : SeqsUpTo(MaxLen), end : {"stop"} \cup Kinds]
NoProducer == [elems |-> <<>>, end |-> "none"]

\* The concurrent invocations explored by SpecConcurrent.
Invocations == {"inv1", "inv2"}

VARIABLES
  api,                  \* the function the caller used to build the wrapper
  route,                \* "direct": api(func, ...); "decorator": api(...)(func)
  wrapper,              \* "retryable" or "retryable_generator"
  expected_exception,   \* set of kinds caught by the except clause
  retry_count,
  retry_count_given,    \* FALSE: the keyword was omitted at construction
  callback,             \* TRUE: a callback was supplied
  args,                 \* the arguments of this invocation of the wrapper
  pc,                   \* position inside wrapper
  i,
  prev_exceptions,
  e,                    \* exception bound by the except clause
  object_to_return,     \* the producer, as far as it has been consumed
  req,                  \* request of the consumer being served, or "none"
  returned,             \* value returned by retryable's wrapper
  surfaced,             \* last error that reached the caller
  reply,                \* what the caller's last request observed
  delivered,            \* elements received by the consumer, in order
  funcArgs,             \* arguments of each invocation of func, in order
  callbackArgs,         \* arguments of each invocation of callback
  events,               \* order of invocations and their outcomes
  logged,               \* history passed to logger.error
  script,               \* the producer as returned by the last func call
  only_advanced,        \* the consumer has used next() only
  raisedLog,            \* every exception raised by func, the producer,
                        \* the callback or the consumer, in order
  func_result,          \* value returned by the last invocation of func
  \* a producer handed to the caller as a plain return value
  raw_producer,         \* that producer, as far as it has been consumed
  raw_delivered,        \* elements the consumer pulled from it
  raw_error,            \* error it raised to the consumer
  \* SpecConcurrent: the locals of each invocation, and what it observed
  c_pc, c_args, c_i, c_prev_exceptions, c_e,
  c_calls,              \* invocations of func made by each invocation
  c_callbacks,          \* invocations of callback made by each invocation
  c_logged,             \* history each invocation passed to logger.error
  c_surfaced,           \* error each invocation raised to its caller
  \* SpecBytes
  b,                    \* the argument of bytes_increment
  b_result,             \* its result
  b_pc

rawvars == <<raw_producer, raw_delivered, raw_error>>

concvars == <<c_pc, c_args, c_i, c_prev_exceptions, c_e, c_calls,
              c_callbacks, c_logged, c_surfaced>>

bytevars == <<b, b_result, b_pc>>

policy == <<api, route, wrapper, expected_exception, retry_count,
            retry_count_given, callback>>

\* The state of the single invocation explored by Spec.
invocation == <<args, pc, i, prev_exceptions, e, object_to_return, req,
                returned, surfaced, reply, delivered, funcArgs, callbackArgs,
                events, logged, script, only_advanced, raisedLog,
                func_result>>

vars == <<policy, invocation, rawvars, concvars, bytevars>>

(* ------------------------- construction --------------------------------- *)
\* retry_count as bound by the signature: the default when omitted.
RetryCountParam(given, n) == IF given THEN n ELSE DefaultRetryCount

\* if func is None: return partial(retryable, ...)
RetryableDecorator == "retryable"

\* if func is None: return partial(retryable, ...)
RetryableGeneratorDecorator == "retryable"

\* The wrapper the caller ends up with.
Built(f, r) ==
  IF r = "direct" THEN f
  ELSE IF f = "retryable" THEN RetryableDecorator
       ELSE RetryableGeneratorDecorator

\* The policy given at construction.
PolicyGiven ==
  /\ expected_exception \in SUBSET Kinds
  /\ retry_count_given \in BOOLEAN
  /\ \E n \in 0..MaxRetry :
        /\ retry_count = RetryCountParam(retry_count_given, n)
        /\ (~retry_count_given => n = 0)
  /\ callback \in BOOLEAN

\* The wrapper has not been invoked.
NotInvoked ==
  /\ args = NoArgs
  /\ pc = "idle"
  /\ i = 0
  /\ prev_exceptions = <<>>
  /\ e = NoError
  /\ object_to_return = NoProducer
  /\ req = "none"
  /\ returned = NoValue
  /\ surfaced = NoError
  /\ reply = "none"
  /\ delivered = <<>>
  /\ funcArgs = <<>>
  /\ callbackArgs = <<>>
  /\ events = <<>>
  /\ logged = <<>>
  /\ script = NoProducer
  /\ only_advanced = TRUE
  /\ raisedLog = <<>>
  /\ func_result = NoValue
  /\ raw_producer = NoProducer
  /\ raw_delivered = <<>>
  /\ raw_error = NoError

\* No concurrent invocation has started.
ConcurrentIdle ==
  /\ c_pc = [n \in Invocations |-> "idle"]
  /\ c_args = [n \in Invocations |-> NoArgs]
  /\ c_i = [n \in Invocations |-> 0]
  /\ c_prev_exceptions = [n \in Invocations |-> <<>>]
  /\ c_e = [n \in Invocations |-> NoError]
  /\ c_calls = [n \in Invocations |-> 0]
  /\ c_callbacks = [n \in Invocations |-> 0]
  /\ c_logged = [n \in Invocations |-> <<>>]
  /\ c_surfaced = [n \in Invocations |-> NoError]

\* bytes_increment is not being applied.
BytesIdle ==
  /\ b = <<>>
  /\ b_result = [sentinel |-> TRUE, bytes |-> <<>>]
  /\ b_pc = "unused"

Init ==
  /\ api \in {"retryable", "retryable_generator"}
  /\ route \in {"direct", "decorator"}
  /\ wrapper = Built(api, route)
  /\ PolicyGiven
  /\ NotInvoked
  /\ ConcurrentIdle
  /\ BytesIdle

\* The event recorded for a failure of the operation: whether its kind is
\* one of the kinds the policy names.
Failure(kind) ==
  IF kind \in expected_exception THEN "matched" ELSE "unmatched"

(* --------------------------- retryable ---------------------------------- *)
\* Variant: a bare except clause, catching every kind.
RetryableMatchesAny(kind, expected) == TRUE

\* Variant: an empty expected_exception treated as "catch everything".
RetryableMatchesEmptyAsAll(kind, expected) ==
  expected = {} \/ kind \in expected

\* except expected_exception as e
RetryableMatches(kind, expected) == kind \in expected

\* Variant: the budget test off by one, if i > retry_count.
RetryableExhaustedLate(n, budget) == n > budget

\* if i >= retry_count
RetryableExhausted(n, budget) == n >= budget

\* Variant: raise prev_exceptions[0], the first recorded failure.
RetryableRaisedFirst(prev, current) == prev[1]

\* raise e
RetryableRaised(prev, current) == current

\* Variant: func() invoked without the arguments of the call.
RetryableFuncArgsDropped(a) == NoArgs

\* func(*args, **kwargs)
RetryableFuncArgs(a) == a

\* callback(*args, **kwargs)
RetryableCallbackArgs(a) == a

\* if callback is not None
RetryableCallsCallback(cb) == cb

\* Variant: the callback invoked inside the try block, so that a matched
\* kind it raises is caught like a failure of the operation.
RetryableCallbackHandlerRetry(kind, expected) ==
  IF kind \in expected THEN "except" ELSE "propagate"

\* Where an exception raised by callback goes: it is raised inside the
\* except clause, which no handler of the try statement covers.
RetryableCallbackHandler(kind, expected) == "propagate"

\* return func(*args, **kwargs)
RetryableReturn(v) == v

\* The caller invokes the wrapped operation.
R_Enter ==
  /\ wrapper = "retryable"
  /\ pc = "idle"
  /\ \E a \in ArgVals : args' = a
  /\ i' = 0
  /\ prev_exceptions' = <<>>
  /\ pc' = "try"
  /\ UNCHANGED <<policy, e, object_to_return, req, returned, surfaced, reply,
                 delivered, funcArgs, callbackArgs, events, logged, script,
                 only_advanced,
                 raisedLog, func_result,
                 rawvars, concvars, bytevars>>

\* return func(*args, **kwargs): the operation succeeds.
R_CallReturn ==
  /\ wrapper = "retryable"
  /\ api = "retryable"
  /\ pc = "try"
  /\ funcArgs' = Append(funcArgs, RetryableFuncArgs(args))
  /\ \E v \in Values :
       /\ func_result' = v
       /\ returned' = RetryableReturn(v)
  /\ reply' = "returned"
  /\ events' = Append(events, "ok")
  /\ pc' = "done"
  /\ UNCHANGED <<policy, args, i, prev_exceptions, e, object_to_return, req,
                 surfaced, delivered, callbackArgs, logged, script,
                 only_advanced,
                 raisedLog,
                 rawvars, concvars, bytevars>>

\* return func(*args, **kwargs) where func is a producing operation and
\* the wrapper is the one retryable builds: the producer is returned to the
\* caller as it is, before anything has been pulled from it.
D_CallReturn ==
  /\ wrapper = "retryable"
  /\ api = "retryable_generator"
  /\ pc = "try"
  /\ funcArgs' = Append(funcArgs, RetryableFuncArgs(args))
  /\ \E p \in Producers : raw_producer' = p
  /\ func_result' = "producer"
  /\ returned' = RetryableReturn("producer")
  /\ reply' = "returned"
  /\ events' = Append(events, "ok")
  /\ pc' = "done"
  /\ UNCHANGED <<policy, args, i, prev_exceptions, e, object_to_return, req,
                 surfaced, delivered, callbackArgs, logged, script,
                 only_advanced, raisedLog, raw_delivered, raw_error,
                 concvars, bytevars>>

\* The caller pulls from the producer that wrapper returned to it; no code
\* of the wrapper runs any more.
P_Next ==
  /\ wrapper = "retryable"
  /\ api = "retryable_generator"
  /\ pc = "done"
  /\ reply = "returned"
  /\ raw_producer.end \in {"stop"} \cup Kinds
  /\ raw_error = NoError
  /\ IF raw_producer.elems # <<>>
     THEN /\ raw_delivered' = Append(raw_delivered, Head(raw_producer.elems))
          /\ raw_producer' =
               [raw_producer EXCEPT !.elems = Tail(raw_producer.elems)]
          /\ UNCHANGED raw_error
     ELSE /\ raw_producer' = [raw_producer EXCEPT !.end = "closed"]
          /\ raw_error' =
               IF raw_producer.end = "stop" THEN NoError
               ELSE Err(raw_producer.end, Len(funcArgs),
                        IF raw_delivered = <<>> THEN "first" ELSE "drain")
          /\ UNCHANGED raw_delivered
  /\ UNCHANGED <<policy, invocation, concvars, bytevars>>

\* func(*args, **kwargs) raises.
R_CallRaise ==
  /\ wrapper = "retryable"
  /\ pc = "try"
  /\ funcArgs' = Append(funcArgs, RetryableFuncArgs(args))
  /\ \E k \in Kinds :
       LET err == Err(k, Len(funcArgs) + 1, "call") IN
       /\ raisedLog' = Append(raisedLog, err)
       /\ events' = Append(events, Failure(k))
       /\ IF RetryableMatches(k, expected_exception)
          THEN /\ e' = err
               /\ pc' = "except"
               /\ UNCHANGED <<surfaced, reply>>
          ELSE /\ surfaced' = err
               /\ reply' = "error"
               /\ pc' = "done"
               /\ UNCHANGED e
  /\ UNCHANGED <<policy, args, i, prev_exceptions, object_to_return, req,
                 returned, delivered, callbackArgs, logged, script,
                 only_advanced,
                 func_result,
                 rawvars, concvars, bytevars>>

\* The except clause up to the budget test.
R_Except ==
  /\ wrapper = "retryable"
  /\ pc = "except"
  /\ prev_exceptions' = Append(prev_exceptions, e)
  /\ IF RetryableExhausted(i, retry_count)
     THEN /\ logged' = prev_exceptions'
          /\ surfaced' = RetryableRaised(prev_exceptions', e)
          /\ reply' = "error"
          /\ pc' = "done"
     ELSE /\ pc' = "callback"
          /\ UNCHANGED <<logged, surfaced, reply>>
  /\ UNCHANGED <<policy, args, i, e, object_to_return, req, returned,
                 delivered, funcArgs, callbackArgs, events, script,
                 only_advanced,
                 raisedLog, func_result,
                 rawvars, concvars, bytevars>>

\* if callback is not None: callback(*args, **kwargs)
R_Callback ==
  /\ wrapper = "retryable"
  /\ pc = "callback"
  /\ IF RetryableCallsCallback(callback)
     THEN /\ callbackArgs' = Append(callbackArgs, RetryableCallbackArgs(args))
          /\ \/ /\ events' = Append(events, "callback")
                /\ pc' = "incr"
                /\ UNCHANGED <<surfaced, reply, raisedLog, e>>
             \/ \E k \in Kinds :
                  LET err == Err(k, Len(funcArgs), "callback") IN
                  /\ raisedLog' = Append(raisedLog, err)
                  /\ events' = Append(events, "callback_raised")
                  /\ IF RetryableCallbackHandler(k, expected_exception)
                        = "except"
                     THEN /\ e' = err
                          /\ pc' = "except"
                          /\ UNCHANGED <<surfaced, reply>>
                     ELSE /\ surfaced' = err
                          /\ reply' = "error"
                          /\ pc' = "done"
                          /\ UNCHANGED e
     ELSE /\ pc' = "incr"
          /\ UNCHANGED <<callbackArgs, events, surfaced, reply, raisedLog,
                         e>>
  /\ UNCHANGED <<policy, args, i, prev_exceptions, object_to_return, req,
                 returned, delivered, funcArgs, logged, script,
                 only_advanced,
                 func_result,
                 rawvars, concvars, bytevars>>

\* i += 1, back to the top of the loop
R_Incr ==
  /\ wrapper = "retryable"
  /\ pc = "incr"
  /\ i' = i + 1
  /\ pc' = "try"
  /\ UNCHANGED <<policy, args, prev_exceptions, e, object_to_return, req,
                 returned, surfaced, reply, delivered, funcArgs,
                 callbackArgs, events, logged, script, only_advanced,
                 raisedLog, func_result,
                 rawvars, concvars, bytevars>>

(* ------------------------ retryable_generator --------------------------- *)
\* Variant: a bare except clause, catching every kind.
GeneratorMatchesAny(kind, expected) == TRUE

\* except expected_exception as e
GeneratorMatches(kind, expected) == kind \in expected

\* Variant: the budget test off by one, if i > retry_count.
GeneratorExhaustedLate(n, budget) == n > budget

\* if i >= retry_count
GeneratorExhausted(n, budget) == n >= budget

\* raise e
GeneratorRaised(prev, current) == current

\* func(*args, **kwargs)
GeneratorFuncArgs(a) == a

\* callback(*args, **kwargs)
GeneratorCallbackArgs(a) == a

\* if callback is not None
GeneratorCallsCallback(cb) == cb

\* Where an exception of the given kind goes when it is raised inside the
\* outer try (by func, by next(object_to_return), or at the first yield).
GeneratorFirstHandler(kind, expected) ==
  IF GeneratorMatches(kind, expected) THEN "except" ELSE "propagate"

\* Where an exception raised by callback goes: it is raised inside the
\* except clause, which no handler of the try statement covers.
GeneratorCallbackHandler(kind, expected) == "propagate"

\* Variant: yield from inside the try block, so that a matched kind raised
\* while draining is retried.
GeneratorDrainHandlerRetry(kind, expected) ==
  IF kind \in expected THEN "except" ELSE "propagate"

\* Where an exception goes when it is raised by yield from, in the else
\* clause of the try statement.
GeneratorDrainHandler(kind, expected) == "propagate"

\* Where control goes when GeneratorExit is raised at the first yield:
\* except GeneratorExit: pass, then the else clause of the outer try.
GeneratorCloseAtFirstYield == "delegate"

\* Variant: no else clause, so that the loop starts over after the first
\* yield.
GeneratorAfterFirstYieldLoop == "try"

\* Where the body continues when next() resumes it at the first yield: the
\* inner try ends without exception, so the else clause of the outer try
\* runs yield from on the same producer.
GeneratorAfterFirstYield == "delegate"

\* The body yields x to the request being served.  A generator that yields
\* while it is being closed makes close() raise RuntimeError.
Yielded(x) ==
  /\ req' = "none"
  /\ IF req = "close"
     THEN /\ surfaced' = Err("RuntimeError", Len(funcArgs), "close")
          /\ reply' = "error"
          /\ UNCHANGED delivered
     ELSE /\ delivered' = Append(delivered, x)
          /\ reply' = "value"
          /\ UNCHANGED surfaced

\* The body returns: the wrapped sequence completes normally.
Finished ==
  /\ req' = "none"
  /\ reply' = IF req = "close" THEN "closed" ELSE "stop"
  /\ pc' = "done"
  /\ UNCHANGED <<surfaced, delivered>>

\* An exception leaves the body and reaches the consumer.
Propagated(err) ==
  /\ req' = "none"
  /\ reply' = "error"
  /\ surfaced' = err
  /\ pc' = "done"
  /\ UNCHANGED delivered

\* Variant: StopIteration not caught around next(object_to_return); inside
\* a generator body it surfaces as RuntimeError.
GeneratorFirstStopUncaught ==
  Propagated(Err("RuntimeError", Len(funcArgs), "first"))

\* except StopIteration: return
GeneratorFirstStop == Finished

\* The caller invokes the wrapped operation: a generator object is created,
\* its body does not run yet.
G_Create ==
  /\ wrapper = "retryable_generator"
  /\ pc = "idle"
  /\ \E a \in ArgVals : args' = a
  /\ pc' = "created"
  /\ UNCHANGED <<policy, i, prev_exceptions, e, object_to_return, req,
                 returned, surfaced, reply, delivered, funcArgs,
                 callbackArgs, events, logged, script, only_advanced,
                 raisedLog, func_result,
                 rawvars, concvars, bytevars>>

\* next(wrapped): start or resume the body.
C_Next ==
  /\ wrapper = "retryable_generator"
  /\ req = "none"
  /\ pc \in {"created", "yield1", "yield_from"}
  /\ req' = "next"
  /\ IF pc = "created"
     THEN /\ i' = 0
          /\ prev_exceptions' = <<>>
          /\ pc' = "try"
     ELSE /\ pc' = IF pc = "yield1" THEN GeneratorAfterFirstYield
                                     ELSE "delegate"
          /\ UNCHANGED <<i, prev_exceptions>>
  /\ UNCHANGED <<policy, args, e, object_to_return, returned, surfaced,
                 reply, delivered, funcArgs, callbackArgs, events, logged,
                 script, only_advanced,
                 raisedLog, func_result,
                 rawvars, concvars, bytevars>>

\* wrapped.close(): GeneratorExit is raised where the body is suspended.
C_Close ==
  /\ wrapper = "retryable_generator"
  /\ req = "none"
  /\ pc \in {"created", "yield1", "yield_from"}
  /\ only_advanced' = FALSE
  /\ IF pc = "yield1" /\ GeneratorCloseAtFirstYield = "delegate"
     THEN /\ req' = "close"
          /\ pc' = "delegate"
          /\ UNCHANGED reply
     ELSE /\ req' = "none"
          /\ reply' = "closed"
          /\ pc' = "done"
  /\ UNCHANGED <<policy, args, i, prev_exceptions, e, object_to_return,
                 returned, surfaced, delivered, funcArgs, callbackArgs,
                 events, logged, script,
                 raisedLog, func_result,
                 rawvars, concvars, bytevars>>

\* wrapped.throw(exc): exc is raised where the body is suspended.
C_Throw ==
  /\ wrapper = "retryable_generator"
  /\ req = "none"
  /\ pc \in {"created", "yield1", "yield_from"}
  /\ only_advanced' = FALSE
  /\ \E k \in Kinds :
       LET err == Err(k, Len(funcArgs), "throw") IN
       /\ raisedLog' = Append(raisedLog, err)
       /\ events' = Append(events, "thrown")
       /\ IF pc = "yield1"
             /\ GeneratorFirstHandler(k, expected_exception) = "except"
          THEN /\ req' = "throw"
               /\ e' = err
               /\ pc' = "except"
               /\ UNCHANGED <<surfaced, reply>>
          ELSE /\ req' = "none"
               /\ surfaced' = err
               /\ reply' = "error"
               /\ pc' = "done"
               /\ UNCHANGED e
  /\ UNCHANGED <<policy, args, i, prev_exceptions, object_to_return,
                 returned, delivered, funcArgs, callbackArgs, logged,
                 script,
                 func_result,
                 rawvars, concvars, bytevars>>

\* object_to_return = func(*args, **kwargs) returns a producer.
G_CallReturn ==
  /\ wrapper = "retryable_generator"
  /\ req # "none"
  /\ pc = "try"
  /\ funcArgs' = Append(funcArgs, GeneratorFuncArgs(args))
  /\ \E p \in Producers :
       /\ object_to_return' = p
       /\ script' = p
  /\ events' = Append(events, "producer")
  /\ pc' = "first"
  /\ UNCHANGED <<policy, args, i, prev_exceptions, e, req, returned,
                 surfaced, reply, delivered, callbackArgs, logged,
                 only_advanced,
                 raisedLog, func_result,
                 rawvars, concvars, bytevars>>

\* func(*args, **kwargs) raises before it returns a producer.
G_CallRaise ==
  /\ wrapper = "retryable_generator"
  /\ req # "none"
  /\ pc = "try"
  /\ funcArgs' = Append(funcArgs, GeneratorFuncArgs(args))
  /\ \E k \in Kinds :
       LET err == Err(k, Len(funcArgs) + 1, "call") IN
       /\ raisedLog' = Append(raisedLog, err)
       /\ events' = Append(events, Failure(k))
       /\ IF GeneratorFirstHandler(k, expected_exception) = "except"
          THEN /\ e' = err
               /\ pc' = "except"
               /\ UNCHANGED <<req, surfaced, reply, delivered>>
          ELSE /\ Propagated(err)
               /\ UNCHANGED e
  /\ UNCHANGED <<policy, args, i, prev_exceptions, object_to_return,
                 returned, callbackArgs, logged, script, only_advanced,
                 func_result,
                 rawvars, concvars, bytevars>>

\* yield next(object_to_return): the producer has a first element.
G_FirstYield ==
  /\ wrapper = "retryable_generator"
  /\ req # "none"
  /\ pc = "first"
  /\ object_to_return.elems # <<>>
  /\ object_to_return' =
       [object_to_return EXCEPT !.elems = Tail(object_to_return.elems)]
  /\ Yielded(Head(object_to_return.elems))
  /\ pc' = "yield1"
  /\ UNCHANGED <<policy, args, i, prev_exceptions, e, returned, funcArgs,
                 callbackArgs, events, logged, script, only_advanced,
                 raisedLog, func_result,
                 rawvars, concvars, bytevars>>

\* except StopIteration: return
G_FirstStop ==
  /\ wrapper = "retryable_generator"
  /\ req # "none"
  /\ pc = "first"
  /\ object_to_return.elems = <<>>
  /\ object_to_return.end = "stop"
  /\ GeneratorFirstStop
  /\ events' = Append(events, "empty")
  /\ UNCHANGED <<policy, args, i, prev_exceptions, e, object_to_return,
                 returned, funcArgs, callbackArgs, logged, script,
                 only_advanced,
                 raisedLog, func_result,
                 rawvars, concvars, bytevars>>

\* next(object_to_return) raises.
G_FirstRaise ==
  /\ wrapper = "retryable_generator"
  /\ req # "none"
  /\ pc = "first"
  /\ object_to_return.elems = <<>>
  /\ object_to_return.end \in Kinds
  /\ LET err == Err(object_to_return.end, Len(funcArgs), "first") IN
       /\ raisedLog' = Append(raisedLog, err)
       /\ events' = Append(events, Failure(err.kind))
       /\ IF GeneratorFirstHandler(err.kind, expected_exception) = "except"
          THEN /\ e' = err
               /\ pc' = "except"
               /\ UNCHANGED <<req, surfaced, reply, delivered>>
          ELSE /\ Propagated(err)
               /\ UNCHANGED e
  /\ UNCHANGED <<policy, args, i, prev_exceptions, object_to_return,
                 returned, funcArgs, callbackArgs, logged, script,
                 only_advanced,
                 func_result,
                 rawvars, concvars, bytevars>>

\* The except clause up to the budget test.
G_Except ==
  /\ wrapper = "retryable_generator"
  /\ req # "none"
  /\ pc = "except"
  /\ prev_exceptions' = Append(prev_exceptions, e)
  /\ IF GeneratorExhausted(i, retry_count)
     THEN /\ logged' = prev_exceptions'
          /\ Propagated(GeneratorRaised(prev_exceptions', e))
     ELSE /\ pc' = "callback"
          /\ UNCHANGED <<logged, req, surfaced, reply, delivered>>
  /\ UNCHANGED <<policy, args, i, e, object_to_return, returned, funcArgs,
                 callbackArgs, events, script, only_advanced,
                 raisedLog, func_result,
                 rawvars, concvars, bytevars>>

\* if callback is not None: callback(*args, **kwargs)
G_Callback ==
  /\ wrapper = "retryable_generator"
  /\ req # "none"
  /\ pc = "callback"
  /\ IF GeneratorCallsCallback(callback)
     THEN /\ callbackArgs' = Append(callbackArgs, GeneratorCallbackArgs(args))
          /\ \/ /\ events' = Append(events, "callback")
                /\ pc' = "incr"
                /\ UNCHANGED <<req, surfaced, reply, delivered, raisedLog,
                               e>>
             \/ \E k \in Kinds :
                  LET err == Err(k, Len(funcArgs), "callback") IN
                  /\ raisedLog' = Append(raisedLog, err)
                  /\ events' = Append(events, "callback_raised")
                  /\ IF GeneratorCallbackHandler(k, expected_exception)
                        = "except"
                     THEN /\ e' = err
                          /\ pc' = "except"
                          /\ UNCHANGED <<req, surfaced, reply, delivered>>
                     ELSE /\ Propagated(err)
                          /\ UNCHANGED e
     ELSE /\ pc' = "incr"
          /\ UNCHANGED <<callbackArgs, events, req, surfaced, reply,
                         delivered, raisedLog, e>>
  /\ UNCHANGED <<policy, args, i, prev_exceptions, object_to_return,
                 returned, funcArgs, logged, script, only_advanced,
                 func_result,
                 rawvars, concvars, bytevars>>

\* i += 1, back to the top of the loop
G_Incr ==
  /\ wrapper = "retryable_generator"
  /\ req # "none"
  /\ pc = "incr"
  /\ i' = i + 1
  /\ pc' = "try"
  /\ UNCHANGED <<policy, args, prev_exceptions, e, object_to_return, req,
                 returned, surfaced, reply, delivered, funcArgs,
                 callbackArgs, events, logged, script, only_advanced,
                 raisedLog, func_result,
                 rawvars, concvars, bytevars>>

\* yield from object_to_return: the producer has another element.
G_DrainYield ==
  /\ wrapper = "retryable_generator"
  /\ req # "none"
  /\ pc = "delegate"
  /\ object_to_return.elems # <<>>
  /\ object_to_return' =
       [object_to_return EXCEPT !.elems = Tail(object_to_return.elems)]
  /\ Yielded(Head(object_to_return.elems))
  /\ pc' = "yield_from"
  /\ UNCHANGED <<policy, args, i, prev_exceptions, e, returned, funcArgs,
                 callbackArgs, events, logged, script, only_advanced,
                 raisedLog, func_result,
                 rawvars, concvars, bytevars>>

\* yield from object_to_return is exhausted; return
G_DrainStop ==
  /\ wrapper = "retryable_generator"
  /\ req # "none"
  /\ pc = "delegate"
  /\ object_to_return.elems = <<>>
  /\ object_to_return.end = "stop"
  /\ Finished
  /\ UNCHANGED <<policy, args, i, prev_exceptions, e, object_to_return,
                 returned, funcArgs, callbackArgs, events, logged, script,
                 only_advanced,
                 raisedLog, func_result,
                 rawvars, concvars, bytevars>>

\* The producer raises inside yield from.
G_DrainRaise ==
  /\ wrapper = "retryable_generator"
  /\ req # "none"
  /\ pc = "delegate"
  /\ object_to_return.elems = <<>>
  /\ object_to_return.end \in Kinds
  /\ LET err == Err(object_to_return.end, Len(funcArgs), "drain") IN
       /\ raisedLog' = Append(raisedLog, err)
       /\ events' = Append(events, "drain_raised")
       /\ IF GeneratorDrainHandler(err.kind, expected_exception) = "except"
          THEN /\ e' = err
               /\ pc' = "except"
               /\ UNCHANGED <<req, surfaced, reply, delivered>>
          ELSE /\ Propagated(err)
               /\ UNCHANGED e
  /\ UNCHANGED <<policy, args, i, prev_exceptions, object_to_return,
                 returned, funcArgs, callbackArgs, logged, script,
                 only_advanced,
                 func_result,
                 rawvars, concvars, bytevars>>

Next ==
  \/ R_Enter
  \/ R_CallReturn
  \/ D_CallReturn
  \/ P_Next
  \/ R_CallRaise
  \/ R_Except
  \/ R_Callback
  \/ R_Incr
  \/ G_Create
  \/ C_Next
  \/ C_Close
  \/ C_Throw
  \/ G_CallReturn
  \/ G_CallRaise
  \/ G_FirstYield
  \/ G_FirstStop
  \/ G_FirstRaise
  \/ G_Except
  \/ G_Callback
  \/ G_Incr
  \/ G_DrainYield
  \/ G_DrainStop
  \/ G_DrainRaise

Spec == Init /\ [][Next]_vars

(* -------------------- retryable, concurrent invocations ----------------- *)
\* Variant: i and prev_exceptions kept outside wrapper (in the enclosing
\* scope), so that every invocation works on the same pair.
FrameShared(n) == "inv1"

\* The frame that holds i and prev_exceptions of invocation n: they are
\* locals of wrapper, created by each call of it.
Frame(n) == n

InitConcurrent ==
  /\ api = "retryable"
  /\ route \in {"direct", "decorator"}
  /\ wrapper = Built(api, route)
  /\ PolicyGiven
  /\ NotInvoked
  /\ ConcurrentIdle
  /\ BytesIdle

\* A caller invokes the wrapped operation: i = 0, prev_exceptions = [].
CC_Enter(n) ==
  /\ c_pc[n] = "idle"
  /\ \E a \in ArgVals : c_args' = [c_args EXCEPT ![n] = a]
  /\ c_i' = [c_i EXCEPT ![Frame(n)] = 0]
  /\ c_prev_exceptions' = [c_prev_exceptions EXCEPT ![Frame(n)] = <<>>]
  /\ c_pc' = [c_pc EXCEPT ![n] = "try"]
  /\ UNCHANGED <<c_e, c_calls, c_callbacks, c_logged, c_surfaced>>
  /\ UNCHANGED <<policy, invocation, rawvars, bytevars>>

\* return func(*args, **kwargs): the operation succeeds.
CC_CallReturn(n) ==
  /\ c_pc[n] = "try"
  /\ c_calls' = [c_calls EXCEPT ![n] = @ + 1]
  /\ c_pc' = [c_pc EXCEPT ![n] = "done"]
  /\ UNCHANGED <<c_args, c_i, c_prev_exceptions, c_e, c_callbacks, c_logged,
                 c_surfaced>>
  /\ UNCHANGED <<policy, invocation, rawvars, bytevars>>

\* func(*args, **kwargs) raises.
CC_CallRaise(n) ==
  /\ c_pc[n] = "try"
  /\ c_calls' = [c_calls EXCEPT ![n] = @ + 1]
  /\ \E k \in Kinds :
       LET err == Err(k, c_calls[n] + 1, n) IN
       IF RetryableMatches(k, expected_exception)
       THEN /\ c_e' = [c_e EXCEPT ![n] = err]
            /\ c_pc' = [c_pc EXCEPT ![n] = "except"]
            /\ UNCHANGED c_surfaced
       ELSE /\ c_surfaced' = [c_surfaced EXCEPT ![n] = err]
            /\ c_pc' = [c_pc EXCEPT ![n] = "done"]
            /\ UNCHANGED c_e
  /\ UNCHANGED <<c_args, c_i, c_prev_exceptions, c_callbacks, c_logged>>
  /\ UNCHANGED <<policy, invocation, rawvars, bytevars>>

\* The except clause up to the budget test.
CC_Except(n) ==
  /\ c_pc[n] = "except"
  /\ c_prev_exceptions' =
       [c_prev_exceptions EXCEPT ![Frame(n)] = Append(@, c_e[n])]
  /\ IF RetryableExhausted(c_i[Frame(n)], retry_count)
     THEN /\ c_logged' =
               [c_logged EXCEPT ![n] = c_prev_exceptions'[Frame(n)]]
          /\ c_surfaced' =
               [c_surfaced EXCEPT
                  ![n] = RetryableRaised(c_prev_exceptions'[Frame(n)],
                                         c_e[n])]
          /\ c_pc' = [c_pc EXCEPT ![n] = "done"]
     ELSE /\ c_pc' = [c_pc EXCEPT ![n] = "callback"]
          /\ UNCHANGED <<c_logged, c_surfaced>>
  /\ UNCHANGED <<c_args, c_i, c_e, c_calls, c_callbacks>>
  /\ UNCHANGED <<policy, invocation, rawvars, bytevars>>

\* if callback is not None: callback(*args, **kwargs)
CC_Callback(n) ==
  /\ c_pc[n] = "callback"
  /\ IF RetryableCallsCallback(callback)
     THEN /\ c_callbacks' = [c_callbacks EXCEPT ![n] = @ + 1]
          /\ \/ /\ c_pc' = [c_pc EXCEPT ![n] = "incr"]
                /\ UNCHANGED c_surfaced
             \/ \E k \in Kinds :
                  /\ c_surfaced' =
                       [c_surfaced EXCEPT
                          ![n] = Err(k, c_calls[n], "callback")]
                  /\ c_pc' = [c_pc EXCEPT ![n] = "done"]
     ELSE /\ c_pc' = [c_pc EXCEPT ![n] = "incr"]
          /\ UNCHANGED <<c_callbacks, c_surfaced>>
  /\ UNCHANGED <<c_args, c_i, c_prev_exceptions, c_e, c_calls, c_logged>>
  /\ UNCHANGED <<policy, invocation, rawvars, bytevars>>

\* i += 1, back to the top of the loop
CC_Incr(n) ==
  /\ c_pc[n] = "incr"
  /\ c_i' = [c_i EXCEPT ![Frame(n)] = @ + 1]
  /\ c_pc' = [c_pc EXCEPT ![n] = "try"]
  /\ UNCHANGED <<c_args, c_prev_exceptions, c_e, c_calls, c_callbacks,
                 c_logged, c_surfaced>>
  /\ UNCHANGED <<policy, invocation, rawvars, bytevars>>

NextConcurrent ==
  \/ \E n \in Invocations : CC_Enter(n)
  \/ \E n \in Invocations : CC_CallReturn(n)
  \/ \E n \in Invocations : CC_CallRaise(n)
  \/ \E n \in Invocations : CC_Except(n)
  \/ \E n \in Invocations : CC_Callback(n)
  \/ \E n \in Invocations : CC_Incr(n)

SpecConcurrent == InitConcurrent /\ [][NextConcurrent]_vars

(* --------------------------- bytes_increment ---------------------------- *)
\* return None
None == [sentinel |-> TRUE, bytes |-> <<>>]

\* A byte string as a return value.
Bytes(bs) == [sentinel |-> FALSE, bytes |-> bs]

\* Variant: range(len(b) - 1, 0, -1), which never looks at the first byte.
ScanDoneEarly(idx) == idx <= 1

\* range(len(b) - 1, -1, -1) is exhausted (positions count from 1 here).
ScanDone(idx) == idx = 0

\* b[i] += 1
Incremented(bs, idx) == [bs EXCEPT ![idx] = @ + 1]

\* Variant: bytes(b), nothing dropped.
TruncatedNot(bs, idx) == bs

\* Variant: b[:i+2], one byte too many kept.
TruncatedLong(bs, idx) ==
  SubSeq(bs, 1, IF idx + 1 <= Len(bs) THEN idx + 1 ELSE idx)

\* b[:i+1]
Truncated(bs, idx) == SubSeq(bs, 1, idx)

\* The loop of bytes_increment from position idx downwards.
RECURSIVE Scan(_, _)
Scan(bs, idx) ==
  IF ScanDone(idx) THEN None
  ELSE IF bs[idx] # MaxByte
       THEN Bytes(Truncated(Incremented(bs, idx), idx))
       ELSE Scan(bs, idx - 1)

bytes_increment(bs) == Scan(bs, Len(bs))

InitBytes ==
  /\ api = "retryable"
  /\ route = "direct"
  /\ wrapper = Built(api, route)
  /\ expected_exception = {}
  /\ retry_count_given = FALSE
  /\ retry_count = RetryCountParam(retry_count_given, 0)
  /\ callback = FALSE
  /\ NotInvoked
  /\ ConcurrentIdle
  /\ b \in ByteStrings
  /\ b_result = None
  /\ b_pc = "call"

\* bytes_increment(b)
B_Increment ==
  /\ b_pc = "call"
  /\ b_result' = bytes_increment(b)
  /\ b_pc' = "returned"
  /\ UNCHANGED <<b, policy, invocation, rawvars, concvars>>

NextBytes == B_Increment

SpecBytes == InitBytes /\ [][NextBytes]_vars

(* ------------------------------ claims ---------------------------------- *)
Last(s) == s[Len(s)]
AllAre(s, v) == \A j \in 1..Len(s) : s[j] = v
CallbacksFor(n) == IF callback THEN n ELSE 0
IsOperationFailure(x) == x.at \in {"call", "first"}
EmptyProducer == [elems |-> <<>>, end |-> "stop"]

\* C1: retryable recovers from k <= retry_count matched failures (of any
\* mix of matched kinds): when the operation then succeeds the wrapper
\* returns that value, the operation has run exactly k+1 times and the
\* callback, if supplied, exactly k times, all with the original arguments;
\* and the wrapper never gives up before retry_count + 1 matched failures.
C1_RecoveryAfterMatchedFailures ==
  wrapper = "retryable" =>
    /\ (pc = "done" /\ reply = "returned") =>
         LET k == Len(prev_exceptions) IN
         /\ k <= retry_count
         /\ raisedLog = prev_exceptions
         /\ \A j \in 1..k : /\ prev_exceptions[j].kind \in expected_exception
                            /\ prev_exceptions[j].attempt = j
         /\ returned = func_result
         /\ Len(funcArgs) = k + 1
         /\ Len(callbackArgs) = CallbacksFor(k)
         /\ AllAre(funcArgs, args)
         /\ AllAre(callbackArgs, args)
    /\ (pc = "done" /\ reply = "error" /\ surfaced.at = "call"
        /\ surfaced.kind \in expected_exception) =>
         Len(raisedLog) = retry_count + 1

C1_Witness ==
  /\ wrapper = "retryable"
  /\ pc = "done"
  /\ reply = "returned"
  /\ callback
  /\ Len(prev_exceptions) = 2
  /\ prev_exceptions[1].kind # prev_exceptions[2].kind
  /\ Len(funcArgs) = 3

\* C2: in one invocation of either wrapper the operation runs at most
\* retry_count + 1 times and the callback at most retry_count times
\* (retry_count is 1 when it was not given); when every attempt fails with
\* a matched kind the caller gets the error after exactly retry_count + 1
\* invocations of the operation and retry_count of the callback.
C2_AttemptBound ==
  /\ Len(funcArgs) <= retry_count + 1
  /\ Len(callbackArgs) <= retry_count
  /\ ~retry_count_given => (Len(funcArgs) <= 2 /\ Len(callbackArgs) <= 1)
  /\ (/\ pc = "done"
      /\ raisedLog # <<>>
      /\ Len(raisedLog) = Len(funcArgs)
      /\ \A j \in 1..Len(raisedLog) :
            /\ IsOperationFailure(raisedLog[j])
            /\ raisedLog[j].kind \in expected_exception) =>
       /\ reply = "error"
       /\ surfaced = Last(raisedLog)
       /\ Len(funcArgs) = retry_count + 1
       /\ Len(callbackArgs) = CallbacksFor(retry_count)
       /\ ~retry_count_given => Len(funcArgs) = 2

C2_Witness ==
  /\ wrapper = "retryable_generator"
  /\ pc = "done"
  /\ reply = "error"
  /\ callback
  /\ retry_count >= 2
  /\ Len(funcArgs) = retry_count + 1
  /\ Len(callbackArgs) = retry_count
  /\ \A j \in 1..Len(raisedLog) :
        /\ IsOperationFailure(raisedLog[j])
        /\ raisedLog[j].kind \in expected_exception

\* C3: in retryable a failure of the operation whose kind is not in
\* expected_exception ends the invocation at once: the caller gets that
\* very error, the operation is not invoked again, the callback is not
\* invoked for it and it is not recorded, whatever budget remains.
C3_UnmatchedPropagates ==
  wrapper = "retryable" =>
    \A j \in 1..Len(raisedLog) :
      (raisedLog[j].at = "call"
       /\ raisedLog[j].kind \notin expected_exception) =>
        /\ j = Len(raisedLog)
        /\ pc = "done"
        /\ reply = "error"
        /\ surfaced = raisedLog[j]
        /\ Len(funcArgs) = raisedLog[j].attempt
        /\ Len(prev_exceptions) = raisedLog[j].attempt - 1
        /\ Len(callbackArgs) = CallbacksFor(raisedLog[j].attempt - 1)
        /\ logged = <<>>

C3_Witness ==
  /\ wrapper = "retryable"
  /\ pc = "done"
  /\ callback
  /\ Len(raisedLog) >= 2
  /\ Last(raisedLog).at = "call"
  /\ Last(raisedLog).kind \notin expected_exception
  /\ surfaced = Last(raisedLog)
  /\ i < retry_count

\* C4: retryable_generator with a consumer that only advances: what the
\* consumer has received followed by what the current producer still holds
\* is exactly what that producer was to produce; once the sequence has
\* completed after k <= retry_count matched failures the consumer has
\* received exactly the last producer's elements, in order, each once, and
\* the operation has run exactly k + 1 times; the wrapper never gives up on
\* first-element failures before retry_count + 1 of them.
C4_RecoveryOutputEquality ==
  (wrapper = "retryable_generator" /\ only_advanced) =>
    /\ pc \in {"first", "yield1", "delegate", "yield_from"} =>
         delivered \o object_to_return.elems = script.elems
    /\ (pc = "done" /\ reply = "stop") =>
         /\ script.end = "stop"
         /\ delivered = script.elems
         /\ Len(prev_exceptions) <= retry_count
         /\ Len(funcArgs) = Len(prev_exceptions) + 1
         /\ raisedLog = prev_exceptions
         /\ \A j \in 1..Len(prev_exceptions) :
               prev_exceptions[j].kind \in expected_exception
    /\ (pc = "done" /\ reply = "error" /\ IsOperationFailure(surfaced)
        /\ surfaced.kind \in expected_exception) =>
         Len(raisedLog) = retry_count + 1

C4_Witness ==
  /\ wrapper = "retryable_generator"
  /\ only_advanced
  /\ pc = "done"
  /\ reply = "stop"
  /\ Len(prev_exceptions) = 2
  /\ \A j \in 1..2 : prev_exceptions[j].at = "first"
  /\ Len(funcArgs) = 3
  /\ delivered = <<"a", "b">>

\* C5: an error the producer raises after the first element has been
\* yielded reaches the consumer at once and unchanged, matched kind or not:
\* it is not recorded, the operation is not invoked again and the callback
\* is not invoked for it.
C5_DrainErrorPropagates ==
  wrapper = "retryable_generator" =>
    \A j \in 1..Len(raisedLog) :
      raisedLog[j].at = "drain" =>
        /\ j = Len(raisedLog)
        /\ pc = "done"
        /\ reply = "error"
        /\ surfaced = raisedLog[j]
        /\ Len(funcArgs) = raisedLog[j].attempt
        /\ Len(prev_exceptions) = i
        /\ \A n \in 1..Len(prev_exceptions) : prev_exceptions[n].at # "drain"
        /\ Len(callbackArgs) = CallbacksFor(i)
        /\ logged = <<>>

C5_Witness ==
  /\ wrapper = "retryable_generator"
  /\ pc = "done"
  /\ raisedLog # <<>>
  /\ Last(raisedLog).at = "drain"
  /\ Last(raisedLog).kind \in expected_exception
  /\ surfaced = Last(raisedLog)
  /\ i < retry_count
  /\ callback
  /\ Len(delivered) >= 1

\* C6 as stated: when pulling the first element raises an error whose kind
\* is not in expected_exception the wrapped sequence completes normally,
\* the consumer seeing no error.
C6_Original ==
  (/\ wrapper = "retryable_generator"
   /\ raisedLog # <<>>
   /\ Last(raisedLog).at = "first"
   /\ Last(raisedLog).kind \notin expected_exception) =>
     /\ pc = "done"
     /\ reply = "stop"
     /\ surfaced = NoError

\* C6 as amended: when pulling the first element raises an error whose kind
\* is not in expected_exception, that error reaches the consumer at once
\* and unchanged: the operation is not invoked again, the callback is not
\* invoked for it, it is not recorded, and a consumer that only advances
\* has received no element.
C6_UnmatchedFirstPullPropagates ==
  wrapper = "retryable_generator" =>
    \A j \in 1..Len(raisedLog) :
      (raisedLog[j].at = "first"
       /\ raisedLog[j].kind \notin expected_exception) =>
        /\ j = Len(raisedLog)
        /\ pc = "done"
        /\ reply = "error"
        /\ surfaced = raisedLog[j]
        /\ Len(funcArgs) = raisedLog[j].attempt
        /\ Len(prev_exceptions) = raisedLog[j].attempt - 1
        /\ Len(callbackArgs) = CallbacksFor(raisedLog[j].attempt - 1)
        /\ logged = <<>>
        /\ only_advanced => delivered = <<>>

C6_Witness ==
  /\ wrapper = "retryable_generator"
  /\ pc = "done"
  /\ reply = "error"
  /\ raisedLog # <<>>
  /\ Last(raisedLog).at = "first"
  /\ Last(raisedLog).kind \notin expected_exception
  /\ surfaced = Last(raisedLog)
  /\ i < retry_count
  /\ delivered = <<>>

\* C7: when the producer obtained from the operation is exhausted at its
\* first pull, the wrapped sequence completes normally: no error, no
\* element for a consumer that only advances, and the operation is not
\* invoked again nor the callback invoked because of it, whatever budget
\* remains.
C7_EmptyProducerCompletes ==
  (/\ wrapper = "retryable_generator"
   /\ script = EmptyProducer
   /\ pc # "first") =>
     /\ pc = "done"
     /\ reply = "stop"
     /\ surfaced = NoError
     /\ Last(events) = "empty"
     /\ Len(funcArgs) = Len(prev_exceptions) + 1
     /\ Len(callbackArgs) = CallbacksFor(Len(prev_exceptions))
     /\ only_advanced => delivered = <<>>

C7_Witness ==
  /\ wrapper = "retryable_generator"
  /\ script = EmptyProducer
  /\ pc = "done"
  /\ reply = "stop"
  /\ callback
  /\ Len(funcArgs) = 2
  /\ i < retry_count

\* C8: when the budget is exhausted both wrappers raise the most recent
\* matched failure, the one of the last attempt, and the history handed to
\* the log is every matched failure of the invocation in order of
\* occurrence, ending with the raised one.
C8_ExhaustionRaisesLast ==
  logged # <<>> =>
    /\ pc = "done"
    /\ reply = "error"
    /\ i >= retry_count
    /\ logged = prev_exceptions
    /\ logged = raisedLog
    /\ surfaced = Last(logged)
    /\ surfaced.attempt = Len(funcArgs)
    /\ \A j \in 1..Len(logged) : /\ logged[j].attempt = j
                                 /\ logged[j].kind \in expected_exception

C8_Witness ==
  /\ wrapper = "retryable"
  /\ Len(logged) = 3
  /\ logged[1].kind # logged[3].kind
  /\ surfaced = logged[3]
  /\ pc = "done"

\* C9 as stated: every error that reaches the caller of either wrapper is
\* an error that the operation, the producer or the callback raised (or
\* that the consumer threw in), unchanged.
C9_NoErrorTranslation ==
  surfaced # NoError =>
    \E j \in 1..Len(raisedLog) : raisedLog[j] = surfaced

\* C10: in retryable every callback invocation directly follows a matched
\* failure of the operation and is directly followed by the next invocation
\* of the operation, once per retry and with the original arguments; none
\* comes first, after a success, after an unmatched failure, or after the
\* failure that exhausts the budget.
C10_CallbackOrdering ==
  wrapper = "retryable" =>
    LET IsCallback(x) == x \in {"callback", "callback_raised"}
        IsAttempt(x) == x \in {"ok", "matched", "unmatched"}
        n == Len(events)
    IN
    /\ \A j \in 1..n :
         IsCallback(events[j]) =>
           /\ j > 1
           /\ events[j-1] = "matched"
           /\ j < n => (events[j] = "callback" /\ IsAttempt(events[j+1]))
           /\ (j = n /\ events[j] = "callback") => pc \in {"incr", "try"}
    /\ \A j \in 1..n :
         (events[j] \in {"ok", "unmatched"}) => (j = n /\ pc = "done")
    /\ \A j \in 1..n :
         (events[j] = "matched" /\ j < n) =>
           IF callback THEN IsCallback(events[j+1])
                       ELSE IsAttempt(events[j+1])
    /\ logged # <<>> => (n > 0 /\ events[n] = "matched" /\ pc = "done")
    /\ Cardinality({j \in 1..n : IsCallback(events[j])}) = Len(callbackArgs)
    /\ Len(callbackArgs) <= CallbacksFor(retry_count)
    /\ AllAre(callbackArgs, args)

C10_Witness ==
  /\ wrapper = "retryable"
  /\ callback
  /\ pc = "done"
  /\ events = <<"matched", "callback", "matched", "callback", "ok">>
  /\ callbackArgs = <<args, args>>

\* C11: an exception raised by the callback reaches the caller at once and
\* unchanged, in either wrapper: it is not recorded in the history, the
\* operation is not invoked again and the callback is not invoked again,
\* even when its kind is in expected_exception and budget remains.
C11_CallbackErrorAborts ==
  \A j \in 1..Len(raisedLog) :
    raisedLog[j].at = "callback" =>
      /\ j = Len(raisedLog)
      /\ pc = "done"
      /\ reply = "error"
      /\ surfaced = raisedLog[j]
      /\ Len(funcArgs) = raisedLog[j].attempt
      /\ Len(callbackArgs) = i + 1
      /\ Len(prev_exceptions) = i + 1
      /\ \A n \in 1..Len(prev_exceptions) : prev_exceptions[n].at # "callback"
      /\ logged = <<>>
      /\ i < retry_count

C11_Witness ==
  /\ wrapper = "retryable_generator"
  /\ pc = "done"
  /\ raisedLog # <<>>
  /\ Last(raisedLog).at = "callback"
  /\ Last(raisedLog).kind \in expected_exception
  /\ surfaced = Last(raisedLog)
  /\ i + 1 < retry_count

\* C12: retryable with retry_count = 0, or with an empty
\* expected_exception whatever retry_count is, invokes the operation
\* exactly once and never the callback; the caller sees that invocation's
\* value or that invocation's error.
C12_NoRetryEdgeCases ==
  (wrapper = "retryable" /\ (retry_count = 0 \/ expected_exception = {})) =>
    /\ Len(funcArgs) <= 1
    /\ callbackArgs = <<>>
    /\ pc = "done" =>
         /\ Len(funcArgs) = 1
         /\ \/ /\ reply = "returned"
               /\ returned = func_result
               /\ raisedLog = <<>>
            \/ /\ reply = "error"
               /\ Len(raisedLog) = 1
               /\ surfaced = raisedLog[1]
               /\ surfaced.at = "call"

C12_Witness ==
  /\ wrapper = "retryable"
  /\ expected_exception = {}
  /\ retry_count >= 2
  /\ callback
  /\ pc = "done"
  /\ reply = "error"
  /\ Len(funcArgs) = 1
  /\ callbackArgs = <<>>

\* C18 as stated: in retryable_generator, once an element has been
\* delivered to the consumer no later step invokes the operation or the
\* callback again, whatever the consumer does (next, close, or throw of any
\* kind).
C18_NoRestartAfterOutput ==
  [][(wrapper = "retryable_generator" /\ delivered # <<>>) =>
       (funcArgs' = funcArgs /\ callbackArgs' = callbackArgs)]_vars

\* C19 as stated: when the consumer closes the wrapped sequence right after
\* its first element while the producer still has elements, the close
\* completes at once and cleanly: no element is pulled from the producer,
\* nothing is yielded and no error is raised.
C19_EarlyCloseClean ==
  [][(/\ wrapper = "retryable_generator"
      /\ req = "close"
      /\ object_to_return.elems # <<>>) =>
       (/\ object_to_return' = object_to_return
        /\ surfaced' = surfaced
        /\ reply' = "closed"
        /\ pc' = "done")]_vars

\* C20 as stated: a wrapper built by retryable_generator behaves the same
\* through either construction route; in particular its establishment is
\* retried, so a matched failure of the first pull reaches the consumer
\* only after the operation has been invoked retry_count + 1 times.
C20_RoutesEquivalent ==
  api = "retryable_generator" =>
    LET err == IF route = "decorator" THEN raw_error ELSE surfaced IN
    (err.at = "first" /\ err.kind \in expected_exception) =>
      Len(funcArgs) = retry_count + 1

\* C13: interleaved invocations of one wrapped operation each own their
\* attempt counter and history: a step of one invocation never changes the
\* counter or history of another, every recorded failure of an invocation
\* is one of its own, in order, its counter counts its own retries only, so
\* it gets its full retry_count + 1 attempts, and the history it reports at
\* exhaustion holds exactly its own retry_count + 1 failures.
C13_Independence ==
  /\ [](\A n \in Invocations :
          /\ c_calls[n] <= retry_count + 1
          /\ \A j \in 1..Len(c_prev_exceptions[n]) :
                /\ c_prev_exceptions[n][j].at = n
                /\ c_prev_exceptions[n][j].attempt = j
          /\ c_pc[n] \in {"try", "except"} =>
                c_i[n] = Len(c_prev_exceptions[n])
          /\ c_pc[n] = "try" => c_calls[n] = c_i[n]
          /\ c_logged[n] # <<>> =>
                /\ c_logged[n] = c_prev_exceptions[n]
                /\ Len(c_logged[n]) = retry_count + 1
                /\ c_calls[n] = retry_count + 1
                /\ c_surfaced[n] = Last(c_logged[n])
          /\ (c_surfaced[n] # NoError /\ c_surfaced[n].at = n
              /\ c_surfaced[n].kind \in expected_exception) =>
                c_logged[n] # <<>>)
  /\ [][\A n \in Invocations :
          c_pc'[n] = c_pc[n] =>
            /\ c_i'[n] = c_i[n]
            /\ c_prev_exceptions'[n] = c_prev_exceptions[n]]_vars

C13_Witness ==
  /\ retry_count >= 2
  /\ c_pc["inv1"] = "done"
  /\ Len(c_logged["inv1"]) = retry_count + 1
  /\ c_pc["inv2"] = "incr"
  /\ Len(c_prev_exceptions["inv2"]) = 1
  /\ c_i["inv2"] = 0
  /\ c_calls["inv2"] = 1

\* Byte-wise lexicographic order of byte strings: s < t.
RECURSIVE LexLess(_, _)
LexLess(s, t) ==
  IF t = <<>> THEN FALSE
  ELSE IF s = <<>> THEN TRUE
  ELSE IF Head(s) # Head(t) THEN Head(s) < Head(t)
  ELSE LexLess(Tail(s), Tail(t))

IsPrefix(q, s) == Len(q) <= Len(s) /\ SubSeq(s, 1, Len(q)) = q
AllMax(bs) == \A n \in 1..Len(bs) : bs[n] = 255
\* The byte strings the results are compared with: every byte of an
\* argument or of a result, one byte longer than the arguments.
OtherBytes == ByteVals \cup {x + 1 : x \in ByteVals \ {255}}
OtherStrings == UNION {[1..m -> OtherBytes] : m \in 0..(MaxBytesLen + 1)}

\* C14: for b with a byte below 0xFF, with n the last position of such a
\* byte, bytes_increment(b) is b up to n with the byte at n incremented and
\* everything after n dropped; it is strictly greater than b and not longer.
C14_IncrementAndTruncate ==
  (b_pc = "returned" /\ ~AllMax(b)) =>
    LET n == CHOOSE m \in 1..Len(b) :
               b[m] < 255 /\ \A q \in (m+1)..Len(b) : b[q] = 255
        r == b_result.bytes
    IN /\ ~b_result.sentinel
       /\ Len(r) = n
       /\ \A q \in 1..(n-1) : r[q] = b[q]
       /\ r[n] = b[n] + 1
       /\ LexLess(b, r)
       /\ Len(r) <= Len(b)

C14_Witness ==
  /\ b_pc = "returned"
  /\ b = <<1, 254, 255>>
  /\ b_result = [sentinel |-> FALSE, bytes |-> <<1, 255>>]

\* C15: bytes_increment returns the sentinel exactly when every byte of
\* its argument is 0xFF, the empty string included.
C15_SentinelIffAllMax ==
  b_pc = "returned" => (b_result.sentinel <=> AllMax(b))

C15_Witness ==
  /\ b_pc = "returned"
  /\ b = <<>>
  /\ b_result.sentinel

\* C16 as stated: for b not all 0xFF no byte string shorter than
\* bytes_increment(b) is strictly greater than b.
C16_ShortestSuccessor ==
  (b_pc = "returned" /\ ~AllMax(b)) =>
    ~ \E t \in OtherStrings :
        /\ Len(t) < Len(b_result.bytes)
        /\ LexLess(b, t)

\* C17: for b not all 0xFF a byte string s has b as a prefix exactly when
\* b <= s < bytes_increment(b): the result is greater than every string
\* with that prefix, and any smaller string is below b or has the prefix
\* itself.
C17_PrefixScanBound ==
  (b_pc = "returned" /\ ~AllMax(b)) =>
    /\ ~b_result.sentinel
    /\ \A s \in OtherStrings :
         IsPrefix(b, s) <=> (~LexLess(s, b) /\ LexLess(s, b_result.bytes))

C17_Witness ==
  /\ b_pc = "returned"
  /\ b = <<1, 255>>
  /\ b_result = [sentinel |-> FALSE, bytes |-> <<2>>]
  /\ LexLess(<<1, 255, 255, 255>>, b_result.bytes)
====
